---- MODULE Spec2Model ----
(***************************************************************************)
(* Model of ot/da.py (domain adaptation with optimal transport).           *)
(*                                                                         *)
(* One call frame is modelled: the variables are the parameters and the    *)
(* locals of the function that is running, named as in the source, and pc  *)
(* is the position in its body.  Each function has its own specification   *)
(* (SpecJoint, SpecLpl1, SpecL1l2); the variables a function does not use  *)
(* stay at None.                                                           *)
(*                                                                         *)
(* Numbers are exact rationals <<n, d>>, d > 0, in lowest terms.  The      *)
(* results of float operations that are not rational (x / 0, powers,       *)
(* square roots) are kept as tagged terms.                                 *)
(***************************************************************************)
EXTENDS Integers, Sequences, FiniteSets, TLC

VARIABLES
    fn,              \* the function that is running
    pc,              \* position in its body
    xs, xt,          \* samples (joint estimators)
    mu, eta,         \* regularization weights
    bias,            \* joint estimators: estimate a constant bias
    sigma,           \* kernel bandwidth
    numItermax, numInnerItermax,
    stopInnerThr, stopThr,
    log,             \* the log parameter; the log dict once line 347/547 ran
    a, b,            \* marginals
    labels_a,        \* source labels (group solvers)
    reg,             \* entropic weight (group solvers)
    M,               \* cost matrix
    xs1, xstxs, I, I0,         \* joint_OT_mapping_linear: locals of lines 329-345
    K, K1, Kp, K0, Kreg,       \* joint_OT_mapping_kernel: locals of lines 519-545
    G,               \* coupling (joint estimators, gcg)
    L,               \* mapping (joint estimators)
    vloss,           \* loss trace
    loop, it,        \* loop flag and round counter
    classes, indices_labels,   \* sinkhorn_lpl1_mm: labels and index groups
    W,               \* weight matrix (lpl1) / gradient under construction (df)
    cpt,             \* sinkhorn_lpl1_mm: outer counter
    transp,          \* sinkhorn_lpl1_mm: current coupling
    blk,             \* df: position in the (column, label) double loop
    lstlab,          \* sinkhorn_l1l2_gl: the distinct labels
    delta_fval,      \* gcg: relative decrease of the objective
    calls,           \* history: the calls made to the external subsolvers
    ret,             \* what the function returned or raised
    self,            \* the estimator object: its attributes by name
    args,            \* the arrays the caller passes to the methods
    ncall            \* the number of fit calls made on the object

vars == <<fn, pc, xs, xt, mu, eta, bias, sigma, numItermax, numInnerItermax,
          stopInnerThr, stopThr, log, a, b, labels_a, reg, M, xs1, xstxs, I,
          I0, K, K1, Kp, K0, Kreg, G, L, vloss,
          loop, it, classes, indices_labels, W, cpt, transp, blk, lstlab,
          delta_fval, calls, ret, self, args, ncall>>

object == <<self, args, ncall>>

None == <<>>            \* a name that is not bound (yet), or Python's None

(***************************************************************************)
(* Bounds of the model.                                                    *)
(***************************************************************************)
MaxIter == 2         \* numItermax ranges over 0..MaxIter
MaxLabel == 1        \* labels range over 0..MaxLabel
MaxCalls == 2        \* an estimator is fitted at most MaxCalls times

(***************************************************************************)
(* Exact arithmetic: what numpy computes, without rounding.                *)
(***************************************************************************)
Abs(x) == IF x < 0 THEN -x ELSE x

RECURSIVE GCD(_, _)
GCD(x, y) == IF y = 0 THEN x ELSE GCD(y, x % y)

Rat(n, d) ==
    LET g == GCD(Abs(n), Abs(d))
        s == IF d < 0 THEN -1 ELSE 1
    IN  <<(s * n) \div g, (s * d) \div g>>

RInt(n) == <<n, 1>>
RAdd(p, q) == Rat(p[1] * q[2] + q[1] * p[2], p[2] * q[2])
RSub(p, q) == Rat(p[1] * q[2] - q[1] * p[2], p[2] * q[2])
RMul(p, q) == Rat(p[1] * q[1], p[2] * q[2])
RDiv(p, q) == Rat(p[1] * q[2], p[2] * q[1])
RLess(p, q) == p[1] * q[2] < q[1] * p[2]
RAbs(p) == <<Abs(p[1]), p[2]>>
RSq(p) == RMul(p, p)

RECURSIVE RSum(_)
RSum(s) == IF Len(s) = 0 THEN RInt(0) ELSE RAdd(s[1], RSum(Tail(s)))

\* float64 division and comparison: x / 0 is nan or inf (a RuntimeWarning, no
\* exception), and no comparison with nan or +inf against a finite number holds.
NaN == <<0, 0>>
Inf == <<1, 0>>
FloatDiv(x, y) ==
    IF y[1] = 0 THEN (IF x[1] = 0 THEN NaN ELSE Inf) ELSE RDiv(x, y)
FloatLess(q, thr) == q[2] # 0 /\ RLess(q, thr)

(***************************************************************************)
(* Matrices: sequences of rows of rationals.  An operator binds each       *)
(* matrix argument once (X \in {A}), so that the argument is evaluated     *)
(* once and not at every use.                                              *)
(***************************************************************************)
The(S) == CHOOSE v \in S : TRUE

Rows(A) == Len(A)
Cols(A) == Len(A[1])
Column(B, j) == [i \in 1..Rows(B) |-> B[i][j]]
Dot(A, B) ==
    The({[i \in 1..Rows(X) |-> [j \in 1..Cols(Y) |->
             RSum([k \in 1..Cols(X) |-> RMul(X[i][k], Y[k][j])])]] :
         X \in {A}, Y \in {B}})
Transpose(A) ==
    The({[j \in 1..Cols(X) |-> [i \in 1..Rows(X) |-> X[i][j]]] : X \in {A}})
MAdd(A, B) ==
    The({[i \in 1..Rows(X) |-> [j \in 1..Cols(X) |-> RAdd(X[i][j], Y[i][j])]] :
         X \in {A}, Y \in {B}})
MSub(A, B) ==
    The({[i \in 1..Rows(X) |-> [j \in 1..Cols(X) |-> RSub(X[i][j], Y[i][j])]] :
         X \in {A}, Y \in {B}})
MScale(c, A) ==
    The({[i \in 1..Rows(X) |-> [j \in 1..Cols(X) |-> RMul(c, X[i][j])]] :
         X \in {A}})
MHad(A, B) ==
    The({[i \in 1..Rows(X) |-> [j \in 1..Cols(X) |-> RMul(X[i][j], Y[i][j])]] :
         X \in {A}, Y \in {B}})
SumAll(A) == The({RSum([i \in 1..Rows(X) |-> RSum(X[i])]) : X \in {A}})
SumSq(A) == The({SumAll(MHad(X, X)) : X \in {A}})
Trace(A) == The({RSum([i \in 1..Rows(X) |-> X[i][i]]) : X \in {A}})
Eye(n) == [i \in 1..n |-> [j \in 1..n |-> IF i = j THEN RInt(1) ELSE RInt(0)]]
Ones(r, c) == [i \in 1..r |-> [j \in 1..c |-> RInt(1)]]
Zeros(r, c) == [i \in 1..r |-> [j \in 1..c |-> RInt(0)]]
HStack(A, B) == The({[i \in 1..Rows(X) |-> X[i] \o Y[i]] : X \in {A}, Y \in {B}})
ZeroLastRow(A) ==
    [i \in 1..Rows(A) |-> IF i = Rows(A) THEN [j \in 1..Cols(A) |-> RInt(0)] ELSE A[i]]
DropLastCol(A) == [i \in 1..Rows(A) |-> SubSeq(A[i], 1, Cols(A) - 1)]
DropLastRow(A) == SubSeq(A, 1, Rows(A) - 1)

Minor(A, r, c) ==
    [i \in 1..(Rows(A) - 1) |-> [j \in 1..(Cols(A) - 1) |->
        A[IF i < r THEN i ELSE i + 1][IF j < c THEN j ELSE j + 1]]]

\* Laplace expansion along the first row
RECURSIVE Det(_)
Det(A) ==
    The({IF Rows(X) = 1 THEN X[1][1]
         ELSE RSum([j \in 1..Cols(X) |->
                  RMul(RInt(IF j % 2 = 1 THEN 1 ELSE -1),
                       RMul(X[1][j], Det(Minor(X, 1, j))))]) :
         X \in {A}})

ReplaceCol(A, c, v) ==
    [i \in 1..Rows(A) |-> [j \in 1..Cols(A) |-> IF j = c THEN v[i] ELSE A[i][j]]]

\* np.linalg.solve(A, B): raises LinAlgError when A is singular; Cramer's rule
Singular(A) == Det(A)[1] = 0
Solve(A, B) ==
    The({[i \in 1..Rows(X) |-> [j \in 1..Cols(Y) |->
             RDiv(Det(ReplaceCol(X, i, Column(Y, j))), Det(X))]] :
         X \in {A}, Y \in {B}})

(***************************************************************************)
(* External collaborators (ot.utils, ot.lp, ot.optim): their code is not   *)
(* part of da.py.  They are modelled by their contracts.                   *)
(***************************************************************************)
\* unif(n): the uniform histogram of length n
unif(n) == [i \in 1..n |-> Rat(1, n)]

\* dist(x1, x2): squared Euclidean distances between the rows of x1 and x2
dist(x1, x2) ==
    [i \in 1..Rows(x1) |-> [j \in 1..Rows(x2) |->
        RSum([k \in 1..Cols(x1) |-> RSq(RSub(x1[i][k], x2[j][k]))])]]

\* kernel(x1, x2, sigma): a Gram matrix that is 1 at distance 0 and decreases
\* with the squared distance.  The Gaussian kernel exp(-d2 / (2 sigma^2)) is
\* not rational; the rational stand-in 2 sigma^2 / (2 sigma^2 + d2) has the
\* same shape, the same symmetry and the same unit diagonal.
kernel(x1, x2, s) ==
    LET D == dist(x1, x2)
        w == RMul(RInt(2), RSq(s))
    IN  [i \in 1..Rows(D) |-> [j \in 1..Cols(D) |-> RDiv(w, RAdd(w, D[i][j]))]]

\* The couplings with marginals a_ and b_ whose entries are multiples of
\* 1 / (len(a_) * len(b_)).
GridValues(n, m) == {Rat(k, n * m) : k \in 0..(n * m)}
TransportPolytope(a_, b_) ==
    LET n == Len(a_)
        m == Len(b_)
    IN  {P \in [1..n -> [1..m -> GridValues(n, m)]] :
            /\ \A i \in 1..n : RSum(P[i]) = a_[i]
            /\ \A j \in 1..m : RSum(Column(P, j)) = b_[j]}

\* ({P : P \in S} is S, enumerated once)
Uniform22 == {P : P \in TransportPolytope(unif(2), unif(2))}
Uniform32 == {P : P \in TransportPolytope(unif(3), unif(2))}
Feasible(a_, b_) ==
    IF a_ = unif(2) /\ b_ = unif(2) THEN Uniform22
    ELSE IF a_ = unif(3) /\ b_ = unif(2) THEN Uniform32
    ELSE TransportPolytope(a_, b_)

\* emd(a, b, M): an optimal coupling of the exact transport problem
emd(a_, b_, M_) ==
    {P \in Feasible(a_, b_) :
        \A Q \in Feasible(a_, b_) :
            ~RLess(SumAll(MHad(Q, M_)), SumAll(MHad(P, M_)))}

\* cg(a, b, M, reg, f, df, G0, numItermax, stopThr): the iterate the conditional
\* gradient solver holds when its budget or its tolerance ends it.  Each of its
\* steps is a line search on the segment from the current coupling to a
\* coupling of a and b, the step 0 included: the result is a coupling of a and
\* b whose objective <G, M> + reg * f(G) is not above that of the start G0.
cg(a_, b_, M_, reg_, f, G0, numItermax_, stopThr_) ==
    LET cost(P) == RAdd(SumAll(MHad(P, M_)), RMul(reg_, f[P]))
        c0 == The({cost(X) : X \in {G0}})
    IN  {P \in Feasible(a_, b_) : ~RLess(c0, cost(P))}

(***************************************************************************)
(* joint_OT_mapping_linear: lines 327-376                                  *)
(***************************************************************************)
\* line 327 (517)
ns == Rows(xs)
nt == Rows(xt)
d == Cols(xt)

\* lines 336-345
sel(x) == IF bias THEN DropLastRow(x) ELSE x

\* lines 356-358
lin_loss(L_, G_) ==
    RAdd(RAdd(SumSq(MSub(Dot(xs1, L_), MScale(RInt(ns), Dot(G_, xt)))),
              RMul(mu, SumAll(MHad(G_, M)))),
         RMul(eta, SumSq(sel(MSub(L_, I0)))))

\* lines 360-363
lin_solve_L(G_) ==
    LET xst == MScale(RInt(ns), Dot(G_, xt))
    IN  Solve(MAdd(xstxs, MScale(eta, I)),
              MAdd(Dot(Transpose(xs1), xst), MScale(eta, I0)))

(***************************************************************************)
(* joint_OT_mapping_kernel: lines 517-586                                  *)
(***************************************************************************)
\* lines 556-558
ker_loss(L_, G_) ==
    RAdd(RAdd(SumSq(MSub(Dot(K1, L_), MScale(RInt(ns), Dot(G_, xt)))),
              RMul(mu, SumAll(MHad(G_, M)))),
         RMul(eta, Trace(Dot(Dot(Transpose(L_), Kreg), L_))))

\* lines 560-563
solve_L_nobias(G_) == Solve(K0, MScale(RInt(ns), Dot(G_, xt)))
\* lines 565-568
solve_L_bias(G_) == Solve(K0, Dot(Transpose(K1), MScale(RInt(ns), Dot(G_, xt))))
\* lines 583-586
ker_solve_L(G_) == IF bias THEN solve_L_bias(G_) ELSE solve_L_nobias(G_)

(***************************************************************************)
(* The two estimators share the text of everything from the first solve_L  *)
(* on (lines 378-422 and 588-632): one set of actions models both, and     *)
(* loss, solve_L and solve_G are those of the function that is running.    *)
(***************************************************************************)
Linear == "joint_OT_mapping_linear"
Kernel == "joint_OT_mapping_kernel"

loss(L_, G_) == IF fn = Linear THEN lin_loss(L_, G_) ELSE ker_loss(L_, G_)
solve_L(G_) == IF fn = Linear THEN lin_solve_L(G_) ELSE ker_solve_L(G_)
solve_L_raises ==
    IF fn = Linear THEN Singular(MAdd(xstxs, MScale(eta, I))) ELSE Singular(K0)
solve_G_any(L_, G0) == Feasible(a, b)

\* solve_G(L, G0): cg with entropic weight 1/mu, warm-started from G0
solve_G(L_, G0) ==
    LET xsi == The({Dot(X, L_) : X \in {IF fn = Linear THEN xs1 ELSE K1}})
        f == [G_ \in Feasible(a, b) |->
                 SumSq(MSub(xsi, MScale(RInt(ns), Dot(G_, xt))))]
    IN  cg(a, b, M, RDiv(RInt(1), mu), f, G0, numInnerItermax, stopInnerThr)

(***************************************************************************)
(* The log parameter: False, True, or the dict the function rebinds it to. *)
(***************************************************************************)
False == <<"False">>
True == <<"True">>
Dict(entries) == <<"dict", entries>>
Truthy(v) == v # False
IsDict(v) == Len(v) = 2

(***************************************************************************)
(* The inputs of the joint estimators.                                     *)
(***************************************************************************)
Points(p, q) == <<<<RInt(p)>>, <<RInt(q)>>>>      \* two samples, d = 1
SamplesXs == {Points(0, 1), Points(1, 1)}
SamplesXt == {Points(0, 1), Points(1, 2), Points(2, 0)}
StopThrs == {Rat(1, 100000), Rat(1, 2)}

JointInit ==
    /\ fn \in {Linear, Kernel}
    /\ pc = "start"
    /\ xs \in SamplesXs
    /\ xt \in SamplesXt
    /\ mu = RInt(1)
    /\ eta = RInt(1)
    /\ bias \in BOOLEAN
    /\ sigma = RInt(1)
    /\ numItermax \in -1..MaxIter
    /\ numInnerItermax = 10
    /\ stopInnerThr = Rat(1, 1000000)
    /\ stopThr \in StopThrs
    /\ log \in {False, True}
    /\ a = None /\ b = None /\ M = None /\ G = None /\ L = None
    /\ xs1 = None /\ xstxs = None /\ I = None /\ I0 = None
    /\ K = None /\ K1 = None /\ Kp = None /\ K0 = None /\ Kreg = None
    /\ vloss = None
    /\ loop = -1 /\ it = -1    \* not bound yet
    /\ labels_a = None /\ reg = None /\ classes = None
    /\ indices_labels = None /\ W = None /\ cpt = None /\ transp = None
    /\ blk = None /\ lstlab = None /\ delta_fval = None
    /\ calls = <<>>
    /\ ret = None
    /\ self = None /\ args = None /\ ncall = 0

jointParams == <<fn, xs, xt, mu, eta, bias, sigma, numItermax, numInnerItermax,
                 stopInnerThr, stopThr>>
groupLocals == <<labels_a, reg, classes, indices_labels, W, cpt, transp, blk, lstlab,
                 delta_fval>>

closure == <<xs1, xstxs, I, I0, K, K1, Kp, K0, Kreg>>

\* lines 347-354 (547-554): the log dict, a, b, M, the initial coupling
Prelude ==
    /\ log' = IF Truthy(log) THEN Dict(<<<<"err", <<>>>>>>) ELSE log
    /\ a' = unif(ns)
    /\ b' = unif(nt)
    /\ M' = MScale(RInt(ns), dist(xs, xt))
    /\ G' \in emd(a', b', M')
    /\ calls' = Append(calls, <<"emd", a', b', M', G'>>)
    /\ vloss' = <<>>

\* joint_OT_mapping_linear, lines 327-354
LinearSetup ==
    /\ pc = "start"
    /\ fn = Linear
    /\ xs1' = IF bias THEN HStack(xs, Ones(ns, 1)) ELSE xs
    /\ xstxs' = Dot(Transpose(xs1'), xs1')
    /\ I' = IF bias THEN ZeroLastRow(Eye(d + 1)) ELSE Eye(d)
    /\ I0' = IF bias THEN DropLastCol(I') ELSE I'
    /\ Prelude
    /\ pc' = "first_L"
    /\ UNCHANGED <<object, jointParams, groupLocals, K, K1, Kp, K0, Kreg, L, loop, it, ret>>

\* KernelSetup with the normal-equations matrix K1^T K1 + eta*Kreg in both cases
KernelSetup_normal ==
    /\ pc = "start"
    /\ fn = Kernel
    /\ K' = kernel(xs, xs, sigma)
    /\ K1' = IF bias THEN HStack(K', Ones(ns, 1)) ELSE K'
    /\ I' = IF bias THEN ZeroLastRow(Eye(ns + 1)) ELSE Eye(ns)
    /\ Kp' = IF bias
             THEN [i \in 1..(ns + 1) |-> [j \in 1..(ns + 1) |->
                      IF i <= ns /\ j <= ns THEN K'[i][j] ELSE Eye(ns + 1)[i][j]]]
             ELSE Kp
    /\ Kreg' = IF bias THEN Kp' ELSE K'
    /\ K0' = MAdd(Dot(Transpose(K1'), K1'), MScale(eta, Kreg'))
    /\ Prelude
    /\ pc' = "first_L"
    /\ UNCHANGED <<object, jointParams, groupLocals, xs1, xstxs, I0, L, loop, it, ret>>

\* joint_OT_mapping_kernel, lines 517-554
KernelSetup ==
    /\ pc = "start"
    /\ fn = Kernel
    /\ K' = kernel(xs, xs, sigma)
    /\ K1' = IF bias THEN HStack(K', Ones(ns, 1)) ELSE K'
    /\ I' = IF bias THEN ZeroLastRow(Eye(ns + 1)) ELSE Eye(ns)
    /\ Kp' = IF bias
             THEN [i \in 1..(ns + 1) |-> [j \in 1..(ns + 1) |->
                      IF i <= ns /\ j <= ns THEN K'[i][j] ELSE Eye(ns + 1)[i][j]]]
             ELSE Kp
    /\ K0' = IF bias
             THEN MAdd(Dot(Transpose(K1'), K1'), MScale(eta, Kp'))
             ELSE MAdd(K', MScale(eta, I'))
    /\ Kreg' = IF bias THEN Kp' ELSE K'
    /\ Prelude
    /\ pc' = "first_L"
    /\ UNCHANGED <<object, jointParams, groupLocals, xs1, xstxs, I0, L, loop, it, ret>>

\* lines 378-380 (588-590)
FirstL ==
    /\ pc = "first_L"
    /\ IF solve_L_raises
       THEN /\ pc' = "raised"
            /\ ret' = <<"raise", "LinAlgError">>
            /\ UNCHANGED <<L, vloss>>
       ELSE /\ L' = solve_L(G)
            /\ vloss' = Append(vloss, loss(L', G))
            /\ pc' = "init_loop"
            /\ ret' = ret
    /\ UNCHANGED <<object, jointParams, groupLocals, closure, log, a, b, M, G, loop, it, calls>>

InitLoop_ge ==
    /\ pc = "init_loop"
    /\ loop' = IF numItermax >= 0 THEN 1 ELSE 0
    /\ it' = 0
    /\ pc' = "while"
    /\ UNCHANGED <<object, jointParams, groupLocals, closure, log, a, b, M, G, L, vloss, calls, ret>>

\* lines 388-392 (598-602)
InitLoop ==
    /\ pc = "init_loop"
    /\ loop' = IF numItermax > 0 THEN 1 ELSE 0
    /\ it' = 0
    /\ pc' = "while"
    /\ UNCHANGED <<object, jointParams, groupLocals, closure, log, a, b, M, G, L, vloss, calls, ret>>

\* lines 394-396 (604-606)
While ==
    /\ pc = "while"
    /\ IF loop # 0
       THEN it' = it + 1 /\ pc' = "update_G"
       ELSE it' = it /\ pc' = "return"
    /\ UNCHANGED <<object, jointParams, groupLocals, closure, log, a, b, M, G, L, vloss, loop, calls, ret>>

\* UpdateG that restarts the conditional gradient from the initial coupling
UpdateG_cold ==
    /\ pc = "update_G"
    /\ G' \in solve_G(L, calls[1][5])
    /\ calls' = Append(calls, <<"cg", RDiv(RInt(1), mu), calls[1][5], L, G'>>)
    /\ pc' = "update_L"
    /\ UNCHANGED <<object, jointParams, groupLocals, closure, log, a, b, M, L, vloss, loop, it, ret>>

\* line 399 (609)
UpdateG ==
    /\ pc = "update_G"
    /\ G' \in solve_G(L, G)
    /\ calls' = Append(calls, <<"cg", RDiv(RInt(1), mu), G, L, G'>>)
    /\ pc' = "update_L"
    /\ UNCHANGED <<object, jointParams, groupLocals, closure, log, a, b, M, L, vloss, loop, it, ret>>

\* UpdateL that keeps the L of the previous round
UpdateL_stale ==
    /\ pc = "update_L"
    /\ L' = L
    /\ pc' = "append_loss"
    /\ UNCHANGED <<object, jointParams, groupLocals, closure, log, a, b, M, G, vloss, loop, it, calls, ret>>

\* line 402 (612).  The system matrix does not depend on G: it was not singular
\* at line 378, so it is not singular here.
UpdateL ==
    /\ pc = "update_L"
    /\ L' = solve_L(G)
    /\ pc' = "append_loss"
    /\ UNCHANGED <<object, jointParams, groupLocals, closure, log, a, b, M, G, vloss, loop, it, calls, ret>>

\* AppendLoss that records the new loss at the front of the trace
AppendLoss_front ==
    /\ pc = "append_loss"
    /\ vloss' = <<loss(L, G)>> \o vloss
    /\ pc' = "test_budget"
    /\ UNCHANGED <<object, jointParams, groupLocals, closure, log, a, b, M, G, L, loop, it, calls, ret>>

\* line 404 (614)
AppendLoss ==
    /\ pc = "append_loss"
    /\ vloss' = Append(vloss, loss(L, G))
    /\ pc' = "test_budget"
    /\ UNCHANGED <<object, jointParams, groupLocals, closure, log, a, b, M, G, L, loop, it, calls, ret>>

TestBudget_gt ==
    /\ pc = "test_budget"
    /\ loop' = IF it > numItermax THEN 0 ELSE loop
    /\ pc' = "test_thr"
    /\ UNCHANGED <<object, jointParams, groupLocals, closure, log, a, b, M, G, L, vloss, it, calls, ret>>

\* lines 406-407 (616-617)
TestBudget ==
    /\ pc = "test_budget"
    /\ loop' = IF it >= numItermax THEN 0 ELSE loop
    /\ pc' = "test_thr"
    /\ UNCHANGED <<object, jointParams, groupLocals, closure, log, a, b, M, G, L, vloss, it, calls, ret>>

\* float64 division of a signed numerator by a non-negative denominator
SignedFloatDiv(x, y) ==
    IF y[1] # 0 THEN RDiv(x, y)
    ELSE IF x[1] = 0 THEN NaN ELSE IF x[1] > 0 THEN Inf ELSE <<-1, 0>>
SignedFloatLess(q, thr) ==
    IF q[2] # 0 THEN RLess(q, thr) ELSE q[1] < 0

RelChange_byLast(v) ==
    FloatDiv(RAbs(RSub(v[Len(v)], v[Len(v) - 1])), RAbs(v[Len(v)]))

\* line 409 (619): abs(vloss[-1] - vloss[-2]) / abs(vloss[-2])
RelChange(v) ==
    FloatDiv(RAbs(RSub(v[Len(v)], v[Len(v) - 1])), RAbs(v[Len(v) - 1]))

\* lines 409-410 (619-620)
TestThr ==
    /\ pc = "test_thr"
    /\ loop' = IF FloatLess(RelChange(vloss), stopThr) THEN 0 ELSE loop
    /\ pc' = "while"
    /\ UNCHANGED <<object, jointParams, groupLocals, closure, log, a, b, M, G, L, vloss, it, calls, ret>>

\* lines 418-422 (628-632)
JointReturn ==
    /\ pc = "return"
    /\ fn \in {Linear, Kernel}
    /\ IF Truthy(log)
       THEN /\ log' = Dict(Append(log[2], <<"loss", vloss>>))
            /\ ret' = <<"return", G, L, log'>>
       ELSE /\ log' = log
            /\ ret' = <<"return", G, L>>
    /\ pc' = "done"
    /\ UNCHANGED <<object, jointParams, groupLocals, closure, a, b, M, G, L, vloss, loop, it, calls>>

JointNext ==
    \/ LinearSetup \/ KernelSetup \/ FirstL \/ InitLoop \/ While \/ UpdateG \/ UpdateL
    \/ AppendLoss \/ TestBudget \/ TestThr \/ JointReturn

SpecJoint == JointInit /\ [][JointNext]_vars

\* The interpreter does not stop in the middle of a call: from every position
\* but the two final ones a step is possible and every step moves pc, so the
\* call keeps moving until it has returned or raised.
Positions ==
    {"start", "first_L", "init_loop", "while", "update_G", "update_L", "append_loss",
     "test_budget", "test_thr", "return", "done", "raised"}
Final == {"done", "raised"}
Advance == pc \notin Final /\ pc' \in Positions /\ pc' # pc

SpecJointFair == JointInit /\ [][JointNext]_vars /\ WF_pc(Advance)

(***************************************************************************)
(* Properties of the joint mapping estimators.                             *)
(***************************************************************************)
Returned == pc = "done" /\ ret[1] = "return"
CgCalls == {k \in 1..Len(calls) : calls[k][1] = "cg"}
InLoopBody == pc \in {"update_G", "update_L", "append_loss", "test_budget", "test_thr"}

\* C1: with numItermax <= 0 no BCD round is executed (the loop body is never
\* entered and cg is never called), and the function returns the coupling emd
\* returned, the closed-form solve_L of that coupling, and a loss trace of
\* exactly one value, the loss of that pair.
Thm_C1_NoRoundWithoutBudget ==
    (fn \in {Linear, Kernel} /\ numItermax <= 0) =>
        /\ ~InLoopBody
        /\ CgCalls = {}
        /\ Returned =>
            /\ it = 0
            /\ ret[2] = calls[1][5]
            /\ ret[3] = solve_L(calls[1][5])
            /\ vloss = <<loss(ret[3], ret[2])>>
            /\ Len(ret) = 4 => ret[4] = Dict(<<<<"err", <<>>>>, <<"loss", vloss>>>>)

Wit_C1_ReturnedWithoutRound ==
    Returned /\ numItermax = 0 /\ fn = Kernel /\ bias /\ Len(vloss) = 1

\* The stopping rule with the signed relative decrease
\* (loss[t-1] - loss[t]) / |loss[t-1]| of the loss trace v (v[t+1] is the loss
\* after round t).
StopsSigned(v, t) ==
    \/ t >= numItermax
    \/ SignedFloatLess(SignedFloatDiv(RSub(v[t], v[t + 1]), RAbs(v[t])), stopThr)

\* The stopping rule with the absolute relative change:
\* |loss[t] - loss[t-1]| < stopThr * |loss[t-1]|, never true when loss[t-1] = 0.
StopsAbs(v, t) ==
    \/ t >= numItermax
    \/ RLess(RAbs(RSub(v[t + 1], v[t])), RMul(stopThr, RAbs(v[t])))

AfterRound == pc = "while" /\ it >= 1

C3Bounds ==
    (fn \in {Linear, Kernel} /\ numItermax > 0 /\ pc \notin {"start", "first_L", "init_loop", "raised"}) =>
        /\ it \in 0..numItermax
        /\ InLoopBody => it >= 1
        /\ (pc = "while" /\ it = numItermax) => loop = 0
        /\ (pc = "while" /\ it = 0) => loop = 1
        /\ pc \in {"return", "done"} => it >= 1 /\ Len(vloss) = it + 1
        /\ pc = "done" => ret[1] = "return"

Thm_C3_LoopTerminates ==
    /\ []C3Bounds
    /\ (pc = "init_loop" /\ numItermax > 0) ~> Returned

Wit_C3_ZeroPreviousLoss ==
    /\ Returned /\ numItermax > 1 /\ it = numItermax
    /\ \E t \in 1..it : vloss[t] = RInt(0)

Lpl1 == "sinkhorn_lpl1_mm"

\* lines 106-107
p == Rat(1, 2)
epsilon == Rat(1, 1000)

Num(q) == <<"num", q>>
Lift(A) == [i \in 1..Rows(A) |-> [j \in 1..Cols(A) |-> Num(A[i][j])]]
\* c + eta_ * w
Affine(c, eta_, w) ==
    IF w[1] = "num" THEN Num(RAdd(c, RMul(eta_, w[2]))) ELSE <<"sum", c, eta_, w>>

\* np.unique(v): the distinct values of v in increasing order
RECURSIVE SortedSeq(_)
SortedSeq(S) ==
    IF S = {} THEN <<>>
    ELSE LET lo == CHOOSE x \in S : \A y \in S : x <= y
         IN  <<lo>> \o SortedSeq(S \ {lo})
unique(v) == SortedSeq({v[k] : k \in 1..Len(v)})

where_ge(v, c) == SortedSeq({k - 1 : k \in {n \in 1..Len(v) : v[n] >= c}})

\* np.where(v == c): the indices at which v is c, in increasing order
where_eq(v, c) == SortedSeq({k - 1 : k \in {n \in 1..Len(v) : v[n] = c}})

\* line 125: np.sum(T[idx], axis=0)
RowsSum(T, idx) ==
    [j \in 1..Cols(T) |-> RSum([k \in 1..Len(idx) |-> T[idx[k] + 1][j]])]
\* line 126: p * ((majs + epsilon) ** (p - 1)), entrywise
Majorizer(m) == <<"maj", p, RAdd(m, epsilon), RSub(p, RInt(1))>>
\* line 127: W[idx] = majs (majs is broadcast to each row of idx)
AssignRows(W_, idx, majs) ==
    [i \in 1..Len(W_) |->
        IF \E k \in 1..Len(idx) : idx[k] + 1 = i THEN majs ELSE W_[i]]
AssignFirstRow(W_, idx, majs) ==
    [i \in 1..Len(W_) |-> IF idx[1] + 1 = i THEN majs ELSE W_[i]]

\* sinkhorn(a, b, M, reg, numItermax, stopThr): the iterate the entropic solver
\* holds when its budget or its tolerance ends it, a coupling of a and b
sinkhorn(a_, b_, M_, reg_, numItermax_, stopThr_) == Feasible(a_, b_)

CostMatrices ==
    {<<<<RInt(0), RInt(1)>>, <<RInt(1), RInt(0)>>, <<RInt(2), RInt(1)>>>>}
InnerThrs == {Rat(1, 1000000000), Rat(1, 1000)}

Lpl1Init ==
    /\ fn = Lpl1
    /\ pc = "start"
    /\ a = unif(3)
    /\ b = unif(2)
    /\ labels_a \in [1..3 -> 0..MaxLabel]
    /\ M \in CostMatrices
    /\ reg = RInt(1)
    /\ eta \in {RInt(1), RInt(2)}
    /\ numItermax \in 0..MaxIter
    /\ numInnerItermax = 200
    /\ stopInnerThr = Rat(1, 1000)
    /\ log \in {False, True}
    /\ classes = None /\ indices_labels = None /\ W = None
    /\ cpt = -1                 \* not bound yet
    /\ blk = -1
    /\ transp = None            \* not bound yet
    /\ xs = None /\ xt = None /\ mu = None /\ bias = None /\ sigma = None
    /\ stopThr = None /\ G = None /\ L = None
    /\ xs1 = None /\ xstxs = None /\ I = None /\ I0 = None
    /\ K = None /\ K1 = None /\ Kp = None /\ K0 = None /\ Kreg = None
    /\ vloss = None /\ loop = None /\ it = None
    /\ lstlab = None /\ delta_fval = None
    /\ calls = <<>>
    /\ ret = None
    /\ self = None /\ args = None /\ ncall = 0

lpl1Params == <<fn, a, b, labels_a, M, reg, eta, numItermax, numInnerItermax,
                stopInnerThr, log>>
jointLocals == <<xs, xt, mu, bias, sigma, stopThr, G, L, closure, vloss, loop, it,
                 lstlab, delta_fval>>

Lpl1Partition_ones ==
    /\ pc = "start"
    /\ fn = Lpl1
    /\ classes' = unique(labels_a)
    /\ indices_labels' = [k \in 1..Len(classes') |-> where_eq(labels_a, classes'[k])]
    /\ W' = Lift(Ones(Rows(M), Cols(M)))
    /\ pc' = "for"
    /\ UNCHANGED <<object, lpl1Params, jointLocals, cpt, blk, transp, calls, ret>>

\* lines 109-115: the index groups, W = zeros
Lpl1Partition ==
    /\ pc = "start"
    /\ fn = Lpl1
    /\ classes' = unique(labels_a)
    /\ indices_labels' = [k \in 1..Len(classes') |-> where_eq(labels_a, classes'[k])]
    /\ W' = Lift(Zeros(Rows(M), Cols(M)))
    /\ pc' = "for"
    /\ UNCHANGED <<object, lpl1Params, jointLocals, cpt, blk, transp, calls, ret>>

Lpl1For_short ==
    /\ pc = "for"
    /\ IF cpt + 1 < numItermax - 1
       THEN cpt' = cpt + 1 /\ pc' = "sinkhorn"
       ELSE cpt' = cpt /\ pc' = "return"
    /\ UNCHANGED <<object, lpl1Params, jointLocals, classes, indices_labels, W, blk, transp,
                   calls, ret>>

\* line 117: for cpt in range(numItermax)
Lpl1For ==
    /\ pc = "for"
    /\ IF cpt + 1 < numItermax
       THEN cpt' = cpt + 1 /\ pc' = "sinkhorn"
       ELSE cpt' = cpt /\ pc' = "return"
    /\ UNCHANGED <<object, lpl1Params, jointLocals, classes, indices_labels, W, blk, transp,
                   calls, ret>>

\* Lpl1Sinkhorn that adds eta * W to the caller's M in place (a weight that is
\* no number of the model is added as 1)
Lpl1Sinkhorn_inplace ==
    /\ pc = "sinkhorn"
    /\ LET Mreg == [i \in 1..Rows(M) |-> [j \in 1..Cols(M) |->
                       Affine(M[i][j], eta, W[i][j])]]
       IN  /\ transp' \in sinkhorn(a, b, Mreg, reg, numInnerItermax, stopInnerThr)
           /\ calls' = Append(calls, <<"sinkhorn", a, b, Mreg, reg, numInnerItermax,
                                       stopInnerThr, transp'>>)
           /\ M' = [i \in 1..Rows(M) |-> [j \in 1..Cols(M) |->
                       IF Mreg[i][j][1] = "num" THEN Mreg[i][j][2]
                       ELSE RAdd(M[i][j], eta)]]
    /\ pc' = "reset_W"
    /\ UNCHANGED <<object, fn, a, b, labels_a, reg, eta, numItermax, numInnerItermax,
                   stopInnerThr, log, jointLocals, classes, indices_labels, W, cpt,
                   blk, ret>>

\* lines 118-120
Lpl1Sinkhorn ==
    /\ pc = "sinkhorn"
    /\ LET Mreg == [i \in 1..Rows(M) |-> [j \in 1..Cols(M) |->
                       Affine(M[i][j], eta, W[i][j])]]
       IN  /\ transp' \in sinkhorn(a, b, Mreg, reg, numInnerItermax, stopInnerThr)
           /\ calls' = Append(calls, <<"sinkhorn", a, b, Mreg, reg, numInnerItermax,
                                       stopInnerThr, transp'>>)
    /\ pc' = "reset_W"
    /\ UNCHANGED <<object, lpl1Params, jointLocals, classes, indices_labels, W, cpt, blk, ret>>

\* line 123
Lpl1ResetW ==
    /\ pc = "reset_W"
    /\ W' = Lift(Ones(Rows(M), Cols(M)))
    /\ blk' = 0
    /\ pc' = "classes"
    /\ UNCHANGED <<object, lpl1Params, jointLocals, classes, indices_labels, cpt, transp,
                   calls, ret>>

Lpl1Classes_first ==
    /\ pc = "classes"
    /\ IF blk < Len(classes)
       THEN LET idx == indices_labels[blk + 1]
                majs == RowsSum(transp, idx)
            IN  /\ W' = AssignFirstRow(W, idx, [j \in 1..Len(majs) |-> Majorizer(majs[j])])
                /\ blk' = blk + 1
                /\ pc' = pc
       ELSE /\ pc' = "for"
            /\ UNCHANGED <<W, blk>>
    /\ UNCHANGED <<object, lpl1Params, jointLocals, classes, indices_labels, cpt, transp,
                   calls, ret>>

\* lines 124-127: one pass of the loop over the classes (blk is the index i)
Lpl1Classes ==
    /\ pc = "classes"
    /\ IF blk < Len(classes)
       THEN LET idx == indices_labels[blk + 1]
                majs == RowsSum(transp, idx)
            IN  /\ W' = AssignRows(W, idx, [j \in 1..Len(majs) |-> Majorizer(majs[j])])
                /\ blk' = blk + 1
                /\ pc' = pc
       ELSE /\ pc' = "for"
            /\ UNCHANGED <<W, blk>>
    /\ UNCHANGED <<object, lpl1Params, jointLocals, classes, indices_labels, cpt, transp,
                   calls, ret>>

\* line 129: return transp; transp is not bound when the loop body never ran
Lpl1Return ==
    /\ pc = "return"
    /\ fn = Lpl1
    /\ IF transp = None
       THEN pc' = "raised" /\ ret' = <<"raise", "UnboundLocalError">>
       ELSE pc' = "done" /\ ret' = <<"return", transp>>
    /\ UNCHANGED <<object, lpl1Params, jointLocals, classes, indices_labels, W, cpt, blk,
                   transp, calls>>

Lpl1Next ==
    \/ Lpl1Partition \/ Lpl1For \/ Lpl1Sinkhorn \/ Lpl1ResetW \/ Lpl1Classes
    \/ Lpl1Return

SpecLpl1 == Lpl1Init /\ [][Lpl1Next]_vars

\* Calls with a group-lasso weight that is not positive
Lpl1InvalidInit ==
    /\ fn = Lpl1
    /\ pc = "start"
    /\ a = unif(3)
    /\ b = unif(2)
    /\ labels_a \in [1..3 -> 0..MaxLabel]
    /\ M \in CostMatrices
    /\ reg = RInt(1)
    /\ eta \in {RInt(0), RInt(-1)}
    /\ numItermax \in 1..MaxIter
    /\ numInnerItermax = 200
    /\ stopInnerThr = Rat(1, 1000)
    /\ log = False
    /\ classes = None /\ indices_labels = None /\ W = None
    /\ cpt = -1
    /\ blk = -1
    /\ transp = None
    /\ xs = None /\ xt = None /\ mu = None /\ bias = None /\ sigma = None
    /\ stopThr = None /\ G = None /\ L = None
    /\ xs1 = None /\ xstxs = None /\ I = None /\ I0 = None
    /\ K = None /\ K1 = None /\ Kp = None /\ K0 = None /\ Kreg = None
    /\ vloss = None /\ loop = None /\ it = None
    /\ lstlab = None /\ delta_fval = None
    /\ calls = <<>>
    /\ ret = None
    /\ self = None /\ args = None /\ ncall = 0

SpecLpl1Invalid == Lpl1InvalidInit /\ [][Lpl1Next]_vars

(***************************************************************************)
(* Properties of sinkhorn_lpl1_mm.                                         *)
(***************************************************************************)
SinkhornCalls == {k \in 1..Len(calls) : calls[k][1] = "sinkhorn"}
Range(q) == {q[k] : k \in 1..Len(q)}
\* the mass the coupling T sends from the class of source row r to column j
ClassMass(T, r, j) ==
    RSum([k \in 1..Len(T) |-> IF labels_a[k] = labels_a[r] THEN T[k][j] ELSE RInt(0)])

\* C4 as stated: for every input the call ends having called the Sinkhorn
\* subsolver exactly numItermax times and returns the coupling of the last
\* call.
Orig_C4_ReturnsLastCoupling ==
    (fn = Lpl1 /\ pc \in {"done", "raised"}) =>
        /\ Len(calls) = numItermax
        /\ Returned
        /\ ret = <<"return", calls[Len(calls)][8]>>

\* C4, what the code does: the outer loop has no early exit: once the loop is
\* left the Sinkhorn subsolver has been called exactly numItermax times, one
\* call per pass, and what is returned is the coupling of the last call; with
\* a budget of 0 there is no call and no coupling to return, and line 129
\* raises.
Thm_C4_FullBudget ==
    fn = Lpl1 =>
        /\ Cardinality(SinkhornCalls) = Len(calls)
        /\ pc \in {"for", "reset_W", "classes"} => Len(calls) = cpt + 1
        /\ pc = "sinkhorn" => Len(calls) = cpt
        /\ pc \in {"return", "done", "raised"} => Len(calls) = numItermax
        /\ pc = "done" => ret = <<"return", calls[Len(calls)][8]>>
        /\ pc = "raised" => numItermax = 0

Wit_C4_LastOfSeveral ==
    /\ fn = Lpl1 /\ Returned /\ numItermax >= 2
    /\ calls[Len(calls)][8] # calls[Len(calls) - 1][8]

\* C5: the first call of Sinkhorn gets the cost M itself, whatever eta and the
\* labels are; every later call gets M + eta * W with W the majorizer of the
\* class masses of the coupling the call before it returned.  (The record of
\* the calls is looked at right after each call and when the function ends.)
Thm_C5_FirstCostIsM ==
    (fn = Lpl1 /\ pc \in {"reset_W", "done", "raised"}) =>
        \A k \in 1..Len(calls) :
            calls[k][4] =
                [i \in 1..Rows(M) |-> [j \in 1..Cols(M) |->
                    IF k = 1 THEN Num(M[i][j])
                    ELSE <<"sum", M[i][j], eta,
                           Majorizer(ClassMass(calls[k - 1][8], i, j))>>]]

Wit_C5_SecondCall ==
    fn = Lpl1 /\ pc = "reset_W" /\ Len(calls) >= 2 /\ eta = RInt(2) /\ Len(classes) = 2

\* C6: after each outer iteration W[i, j] is p * (m + epsilon) ** (p - 1) with m
\* the mass the current coupling sends from the class of row i to column j:
\* the rows of a class carry the same values, W is a function of the current
\* coupling alone, and no entry is the placeholder 1.
Thm_C6_WeightsFromCoupling ==
    (fn = Lpl1 /\ pc = "for" /\ cpt >= 0) =>
        \A i \in 1..Rows(M) : \A j \in 1..Cols(M) :
            /\ W[i][j] = <<"maj", Rat(1, 2),
                           RAdd(ClassMass(transp, i, j), Rat(1, 1000)), Rat(-1, 2)>>
            /\ W[i][j] # Num(RInt(1))

Wit_C6_TwoClassesSecondPass ==
    /\ fn = Lpl1 /\ pc = "for" /\ cpt >= 1 /\ Len(classes) = 2
    /\ calls[1][8] # calls[2][8]

\* C7: the index groups partition 0..n-1: every index is in exactly one group,
\* no group is empty, there is one group per distinct label and it holds the
\* indices of that label; the groups are built before the loop and no step of
\* the loop changes them.
PartitionOK ==
    (fn = Lpl1 /\ pc # "start") =>
        /\ Len(indices_labels) = Cardinality(Range(labels_a))
        /\ Len(classes) = Len(indices_labels)
        /\ \A n \in 0..(Len(labels_a) - 1) :
              Cardinality({k \in 1..Len(indices_labels) :
                              n \in Range(indices_labels[k])}) = 1
        /\ \A k \in 1..Len(indices_labels) :
              /\ indices_labels[k] # <<>>
              /\ Len(indices_labels[k]) = Cardinality(Range(indices_labels[k]))
              /\ Range(indices_labels[k]) =
                    {n \in 0..(Len(labels_a) - 1) : labels_a[n + 1] = classes[k]}

Thm_C7_LabelPartition ==
    /\ []PartitionOK
    /\ [][pc # "start" => (indices_labels' = indices_labels /\ classes' = classes)]_vars

Wit_C7_InterleavedClasses ==
    fn = Lpl1 /\ pc = "done" /\ labels_a = <<1, 0, 1>> /\ numItermax >= 2

\* C10: a solver called with log=True returns a diagnostics structure after
\* its primary result, and only the primary result with log=False
\* (sinkhorn_lpl1_mm: the coupling, then the log).
Orig_C10_Lpl1ReturnsLog ==
    (fn = Lpl1 /\ Returned) =>
        IF Truthy(log) THEN Len(ret) = 3 /\ ret[2] = transp
        ELSE ret = <<"return", transp>>

(***************************************************************************)
(* sinkhorn_l1l2_gl: lines 214-236, and the engine gcg of ot.optim it       *)
(* delegates to.                                                           *)
(*                                                                         *)
(* An entry of df(G) is the term <<"num", 0>> or <<"unit", g, s>>, which    *)
(* is g / sqrt(s): the norm of a block is the square root of the sum s of  *)
(* its squares.                                                            *)
(***************************************************************************)
L1l2 == "sinkhorn_l1l2_gl"

\* line 220/228: the rows selected by the mask labels_a == lab
Mask(lab) == {r \in 1..Len(labels_a) : labels_a[r] = lab}
\* line 229: np.linalg.norm(temp) ** 2 for temp = G_[labels_a == lab, i]
NormSq(G_, lab, i) ==
    RSum([r \in 1..Rows(G_) |-> IF r \in Mask(lab) THEN RSq(G_[r][i + 1]) ELSE RInt(0)])
\* line 231: one entry of temp / n
Quotient(g, s) == IF s[1] = 0 THEN Num(NaN) ELSE <<"unit", g, s>>
\* the double loop of lines 226-227, flattened: block k is (column, label)
BlockCol(k) == k \div Len(lstlab)
BlockLab(k) == lstlab[(k % Len(lstlab)) + 1]
NumBlocks == Cols(G) * Len(lstlab)

CostMatrices22 == {<<<<RInt(0), RInt(1)>>, <<RInt(1), RInt(0)>>>>}
\* the relative decreases of the objective the engine may measure
Deltas == {Rat(1, 10000000), Rat(1, 10)}
\* the step sizes of the line search
Alphas == {RInt(0), RInt(1)}

L1l2Init ==
    /\ fn = L1l2
    /\ pc = "start"
    /\ a = unif(2)
    /\ b = unif(2)
    /\ labels_a \in [1..2 -> 0..MaxLabel]
    /\ M \in CostMatrices22
    /\ reg = RInt(1)
    /\ eta = RInt(1)
    /\ numItermax \in 1..MaxIter
    /\ numInnerItermax = 200
    /\ stopInnerThr \in InnerThrs
    /\ log \in {False, True}
    /\ classes = None /\ indices_labels = None /\ W = None
    /\ cpt = None /\ blk = -1 /\ transp = None
    /\ xs = None /\ xt = None /\ mu = None /\ bias = None /\ sigma = None
    /\ stopThr = None /\ G = None /\ L = None
    /\ xs1 = None /\ xstxs = None /\ I = None /\ I0 = None
    /\ K = None /\ K1 = None /\ Kp = None /\ K0 = None /\ Kreg = None
    /\ vloss = None /\ loop = -1 /\ it = -1
    /\ lstlab = None /\ delta_fval = None
    /\ calls = <<>>
    /\ ret = None
    /\ self = None /\ args = None /\ ncall = 0

l1l2Others == <<xs, xt, mu, bias, sigma, L, closure, vloss, classes, indices_labels,
                cpt, transp>>

\* line 214
L1l2Unique ==
    /\ pc = "start"
    /\ fn = L1l2
    /\ lstlab' = unique(labels_a)
    /\ pc' = "gcg"
    /\ UNCHANGED <<object, lpl1Params, l1l2Others, stopThr, G, loop, it, delta_fval, W, blk,
                   calls, ret>>

\* lines 234-236: the call of gcg binds the engine's stopThr to stopInnerThr.
\* The engine starts from the entropic solution of the unpenalized problem;
\* it was given an inner budget and no inner tolerance.
GcgEnter ==
    /\ pc = "gcg"
    /\ stopThr' = stopInnerThr
    /\ G' \in sinkhorn(a, b, Lift(M), reg, numInnerItermax, None)
    /\ calls' = calls \o
                <<<<"gcg", a, b, M, reg, eta, numItermax, numInnerItermax, stopThr'>>,
                  <<"sinkhorn", a, b, Lift(M), reg, numInnerItermax, None, G'>>>>
    /\ loop' = 1
    /\ it' = 0
    /\ pc' = "gcg_while"
    /\ UNCHANGED <<object, lpl1Params, l1l2Others, lstlab, delta_fval, W, blk, ret>>

\* gcg: while loop; a round starts by evaluating df(G) (line 225: W = zeros)
GcgWhile ==
    /\ pc = "gcg_while"
    /\ IF loop = 1
       THEN /\ it' = it + 1
            /\ W' = Lift(Zeros(Rows(G), Cols(G)))
            /\ blk' = 0
            /\ pc' = "df"
       ELSE /\ pc' = "gcg_return"
            /\ UNCHANGED <<it, W, blk>>
    /\ UNCHANGED <<object, lpl1Params, l1l2Others, lstlab, stopThr, G, loop, delta_fval,
                   calls, ret>>

DfBlock_unguarded ==
    /\ pc = "df"
    /\ IF blk < NumBlocks
       THEN LET i == BlockCol(blk)
                lab == BlockLab(blk)
                nsq == NormSq(G, lab, i)
            IN  /\ W' = [r \in 1..Rows(G) |-> [j \in 1..Cols(G) |->
                            IF j = i + 1 /\ r \in Mask(lab)
                            THEN Quotient(G[r][j], nsq) ELSE W[r][j]]]
                /\ blk' = blk + 1
                /\ pc' = pc
       ELSE /\ pc' = "gcg_step"
            /\ UNCHANGED <<W, blk>>
    /\ UNCHANGED <<object, lpl1Params, l1l2Others, lstlab, stopThr, G, loop, it, delta_fval,
                   calls, ret>>

\* lines 226-232: one pass of the double loop of df, then return W
DfBlock ==
    /\ pc = "df"
    /\ IF blk < NumBlocks
       THEN LET i == BlockCol(blk)
                lab == BlockLab(blk)
                nsq == NormSq(G, lab, i)
            IN  /\ W' = IF nsq[1] # 0
                        THEN [r \in 1..Rows(G) |-> [j \in 1..Cols(G) |->
                                 IF j = i + 1 /\ r \in Mask(lab)
                                 THEN Quotient(G[r][j], nsq) ELSE W[r][j]]]
                        ELSE W
                /\ blk' = blk + 1
                /\ pc' = pc
       ELSE /\ pc' = "gcg_step"
            /\ UNCHANGED <<W, blk>>
    /\ UNCHANGED <<object, lpl1Params, l1l2Others, lstlab, stopThr, G, loop, it, delta_fval,
                   calls, ret>>

\* gcg: the entropic solve on the linearized cost M + eta * df(G), then the
\* line search between G and the candidate
GcgStep ==
    /\ pc = "gcg_step"
    /\ LET Mi == [i \in 1..Rows(M) |-> [j \in 1..Cols(M) |->
                     Affine(M[i][j], eta, W[i][j])]]
       IN  \E Gc \in sinkhorn(a, b, Mi, reg, numInnerItermax, None) :
           \E alpha \in Alphas :
               /\ G' = MAdd(G, MScale(alpha, MSub(Gc, G)))
               /\ calls' = Append(calls, <<"sinkhorn", a, b, Mi, reg, numInnerItermax,
                                           None, Gc>>)
    /\ delta_fval' \in Deltas
    /\ pc' = "gcg_test"
    /\ UNCHANGED <<object, lpl1Params, l1l2Others, lstlab, stopThr, loop, it, W, blk, ret>>

\* gcg: stop on the outer budget or when the relative decrease of the
\* objective is below the engine's stopThr
GcgTest ==
    /\ pc = "gcg_test"
    /\ loop' = IF it >= numItermax \/ RLess(RAbs(delta_fval), stopThr) THEN 0 ELSE loop
    /\ pc' = "gcg_while"
    /\ UNCHANGED <<object, lpl1Params, l1l2Others, lstlab, stopThr, G, it, delta_fval, W, blk,
                   calls, ret>>

\* gcg returns G, or G and its log; line 234 returns what gcg returns
GcgReturn ==
    /\ pc = "gcg_return"
    /\ ret' = IF Truthy(log) THEN <<"return", G, Dict(<<<<"it", it>>>>)>>
              ELSE <<"return", G>>
    /\ pc' = "done"
    /\ UNCHANGED <<object, lpl1Params, l1l2Others, lstlab, stopThr, G, loop, it, delta_fval,
                   W, blk, calls>>

L1l2Next ==
    \/ L1l2Unique \/ GcgEnter \/ GcgWhile \/ DfBlock \/ GcgStep \/ GcgTest
    \/ GcgReturn

SpecL1l2 == L1l2Init /\ [][L1l2Next]_vars

(***************************************************************************)
(* Properties of sinkhorn_l1l2_gl.                                         *)
(***************************************************************************)
\* the blocks of the double loop that hold the entry (r, j)
BlocksOf(r, j) ==
    {k \in 0..(NumBlocks - 1) : BlockCol(k) = j - 1 /\ r \in Mask(BlockLab(k))}
\* the sum of the squares of the block of G that holds the entry (r, j)
BlockSq(r, j) ==
    RSum([q \in 1..Rows(G) |-> IF labels_a[q] = labels_a[r] THEN RSq(G[q][j])
                                                           ELSE RInt(0)])

\* C8: while df builds W and when it returns it, every entry whose block has
\* been visited is the entry of G divided by the norm of its block if that
\* norm is not zero and 0 if it is; no entry is the result of a division by
\* zero; every entry belongs to exactly one block, and a step of the loop
\* writes only entries of its own block, which nothing wrote before.
DfEntries ==
    (fn = L1l2 /\ pc \in {"df", "gcg_step"}) =>
        \A r \in 1..Rows(G) : \A j \in 1..Cols(G) :
            /\ Cardinality(BlocksOf(r, j)) = 1
            /\ W[r][j] # Num(NaN)
            /\ W[r][j] =
                  IF (\A k \in BlocksOf(r, j) : k < blk) /\ BlockSq(r, j)[1] # 0
                  THEN <<"unit", G[r][j], BlockSq(r, j)>>
                  ELSE Num(RInt(0))
            /\ pc = "gcg_step" => blk = NumBlocks

DfWrites ==
    (fn = L1l2 /\ pc = "df" /\ pc' = "df") =>
        \A r \in 1..Rows(G) : \A j \in 1..Cols(G) :
            W'[r][j] # W[r][j] => (blk \in BlocksOf(r, j) /\ W[r][j] = Num(RInt(0)))

Thm_C8_NormalizedBlocks == []DfEntries /\ [][DfWrites]_vars

Wit_C8_ZeroNormBlock ==
    /\ fn = L1l2 /\ pc = "gcg_step" /\ Len(lstlab) = 2
    /\ \E r \in 1..Rows(G) : \E j \in 1..Cols(G) :
          BlockSq(r, j)[1] = 0 /\ W[r][j] = Num(RInt(0))
    /\ \E r \in 1..Rows(G) : \E j \in 1..Cols(G) : W[r][j][1] = "unit"

\* C9: in both group solvers stopInnerThr is the tolerance of the inner
\* Sinkhorn solves and nothing else: every call of sinkhorn gets it as its
\* tolerance together with numInnerItermax as its budget, and the outer loop
\* never stops before its budget because of it.
Orig_C9_InnerToleranceOnly ==
    fn \in {Lpl1, L1l2} =>
        /\ \A k \in SinkhornCalls :
              calls[k][6] = numInnerItermax /\ calls[k][7] = stopInnerThr
        /\ (fn = L1l2 /\ pc = "gcg_while" /\ loop = 0 /\ it < numItermax) =>
              ~RLess(RAbs(delta_fval), stopInnerThr)

(***************************************************************************)
(* Invalid input and an empty budget in sinkhorn_lpl1_mm.                  *)
(***************************************************************************)
\* C11: a solver called with a weight that is not positive (here eta <= 0 in
\* sinkhorn_lpl1_mm) raises before its first subsolver call: it makes no call,
\* starts no iteration and returns nothing.
Orig_C11_InvalidInputRejected ==
    (fn = Lpl1 /\ ~RLess(RInt(0), eta)) =>
        /\ calls = <<>>
        /\ pc \in {"start", "raised"}

\* C12: sinkhorn_lpl1_mm ends every call with numItermax >= 0, the budget 0
\* included, by returning a coupling of the shape of M, never by raising.
Orig_C12_ReturnsForEveryBudget ==
    (fn = Lpl1 /\ numItermax >= 0 /\ pc \in {"done", "raised"}) =>
        /\ pc = "done"
        /\ Rows(ret[2]) = Rows(M)
        /\ Cols(ret[2]) = Cols(M)

(***************************************************************************)
(* The regularizer of the joint mapping estimators.                        *)
(***************************************************************************)
\* The matrix that weights L in the regularization term and in the system
\* matrix of solve_L: I (lines 332-333, 363) and Kreg (lines 533, 558)
RegMatrix == IF fn = Linear THEN I ELSE Kreg
AfterSetup == fn \in {Linear, Kernel} /\ pc \notin {"start"}

\* C13: with bias=True the regularization matrix has zero weight on the bias
\* row and column, in the linear and in the kernel estimator alike.
Orig_C13_BiasNotRegularized ==
    (AfterSetup /\ bias) =>
        \A k \in 1..Rows(RegMatrix) :
            /\ RegMatrix[Rows(RegMatrix)][k] = RInt(0)
            /\ RegMatrix[k][Rows(RegMatrix)] = RInt(0)

NormalMatrix == MAdd(Dot(Transpose(K1), K1), MScale(eta, Kreg))

\* C14 as stated: K0 = K1^T K1 + eta*Kreg with and without bias.
Orig_C14_NormalEquations ==
    (AfterSetup /\ fn = Kernel) => K0 = NormalMatrix

\* C14: with bias K0 = K1^T K1 + eta*Kreg; without bias K0 = K + eta*I, the
\* kernel ridge matrix, which is the stated matrix with one factor K removed:
\* K . K0 = K1^T K1 + eta*Kreg.
Thm_C14_KernelSystemMatrix ==
    (AfterSetup /\ fn = Kernel) =>
        /\ bias => K0 = NormalMatrix
        /\ ~bias => /\ K0 = MAdd(K, MScale(eta, Eye(ns)))
                    /\ Dot(K, K0) = NormalMatrix

Wit_C14_RidgeSolveReturned ==
    /\ Returned /\ fn = Kernel /\ ~bias /\ it >= 1
    /\ K0 # NormalMatrix
    /\ Dot(K0, ret[3]) = MScale(RInt(ns), Dot(ret[2], xt))

(***************************************************************************)
(* The loss trace of the joint mapping estimators.                         *)
(***************************************************************************)
\* Rounds of the while loop that have run to their vloss.append; it counts the
\* rounds that were started (line 396).
RoundsDone ==
    IF it < 0 THEN 0
    ELSE IF pc \in {"update_G", "update_L", "append_loss"} THEN it - 1 ELSE it
\* Positions between two rounds, where (L, G) is a finished pair
BetweenRounds == pc \in {"init_loop", "while", "test_budget", "test_thr", "return", "done"}
TraceShape ==
    (fn \in {Linear, Kernel} /\ pc \notin {"start", "first_L", "raised"}) =>
        /\ Len(vloss) = RoundsDone + 1
        /\ BetweenRounds => vloss[Len(vloss)] = loss(L, G)
        /\ (Returned /\ Truthy(log)) =>
              /\ Len(ret) = 4
              /\ ret[4][2][Len(ret[4][2])] = <<"loss", vloss>>
TraceStep ==
    (fn \in {Linear, Kernel} /\ pc # "start") =>
        \/ vloss' = vloss
        \/ /\ pc \in {"first_L", "append_loss"}
           /\ vloss' = Append(vloss, loss(L', G'))

\* C16: from the first recorded loss on, the trace holds one entry per completed
\* round plus the initial one, each step leaves it alone or appends the loss of
\* the new (L, G) pair to it, between rounds its last entry is the loss of the
\* current pair, and with log=True the returned log['loss'] is the whole trace.
Thm_C16_AppendOnlyTrace == [](TraceShape) /\ [][TraceStep]_vars

Wit_C16_ThreeEntriesLogged ==
    /\ Returned /\ Truthy(log) /\ it = 2
    /\ Len(ret[4][2][2][2]) = 3
    /\ ret[4][2][2][2][3] = loss(ret[3], ret[2])
    /\ ret[4][2][2][2][3] # ret[4][2][2][2][1]

(***************************************************************************)
(* A call of any of the four solver functions.                             *)
(***************************************************************************)
SolverInit == JointInit \/ Lpl1Init \/ L1l2Init
SolverNext == JointNext \/ Lpl1Next \/ L1l2Next
SpecSolvers == SolverInit /\ [][SolverNext]_vars

ReadOnlyStep ==
    /\ fn \in {Lpl1, L1l2} =>
          a' = a /\ b' = b /\ labels_a' = labels_a /\ M' = M
    /\ fn \in {Linear, Kernel} => xs' = xs /\ xt' = xt

\* C15: no step of a solver changes its inputs: sinkhorn_lpl1_mm and
\* sinkhorn_l1l2_gl keep a, b, labels_a and the caller's M through every outer
\* iteration, and the joint mapping estimators keep xs and xt.
Thm_C15_InputsReadOnly == [][ReadOnlyStep]_vars

\* A second pass of sinkhorn_lpl1_mm whose regularized cost differs from M,
\* with M still the matrix that the first pass was given
Wit_C15_RegularizedCostIsNew ==
    /\ fn = Lpl1 /\ Returned /\ Len(calls) >= 2
    /\ calls[1][4] = Lift(M)
    /\ calls[2][4] # Lift(M)

(***************************************************************************)
(* BaseTransport and its subclasses: lines 1067-1593.  self maps the names *)
(* of the attributes the object has to their values; a fit, a transform or *)
(* an inverse_transform starts when no call is in progress (pc = "idle").  *)
(***************************************************************************)
HasAttr(o, n) == n \in DOMAIN o
SetAttr(o, n, v) == [k \in DOMAIN o \cup {n} |-> IF k = n THEN v ELSE o[k]]

Finite(q) == q[2] # 0
\* np.max of a matrix of finite entries
MaxEntry(A) ==
    LET E == {A[i][j] : i \in 1..Rows(A), j \in 1..Cols(A)}
    IN  CHOOSE m \in E : \A e \in E : ~RLess(m, e)
\* np.dot on float64: a product with a non-finite factor makes the entry nan
FDot(A, B) ==
    [i \in 1..Rows(A) |-> [j \in 1..Cols(B) |->
        IF \E k \in 1..Cols(A) : ~Finite(A[i][k]) \/ ~Finite(B[k][j]) THEN NaN
        ELSE RSum([k \in 1..Cols(A) |-> RMul(A[i][k], B[k][j])])]]

\* What a transport subsolver leaves in Coupling_ in float64: a coupling of a_
\* and b_, or one in which the kernel of the first source or of the first
\* target has underflowed and its row or column is 0.
ZeroRow(P, r) == [i \in 1..Rows(P) |-> [j \in 1..Cols(P) |->
                     IF i = r THEN RInt(0) ELSE P[i][j]]]
ZeroCol(P, c) == [i \in 1..Rows(P) |-> [j \in 1..Cols(P) |->
                     IF j = c THEN RInt(0) ELSE P[i][j]]]
TransportCouplings(a_, b_) ==
    Feasible(a_, b_) \cup {ZeroRow(P, 1) : P \in Feasible(a_, b_)}
                     \cup {ZeroCol(P, 1) : P \in Feasible(a_, b_)}

\* lines 1260-1274 (1344-1354): the object after construction
Labels == [1..2 -> -1..MaxLabel]
OtherSamples == Points(2, 3)
TransportInit ==
    /\ fn = "__init__"
    /\ pc = "idle"
    /\ self \in [class : {"SinkhornTransport", "EMDTransport"},
                 limit_max : {Inf, RInt(10)}, log : {FALSE}]
    /\ args \in [Xs : {Points(0, 1)}, Xt : {Points(1, 3)},
                 ys : Labels \cup {None}, yt : Labels \cup {None}]
    /\ ncall = 0
    /\ classes = None
    /\ calls = <<>>
    /\ ret = None
    /\ xs = None /\ xt = None /\ mu = None /\ eta = None /\ bias = None
    /\ sigma = None /\ numItermax = None /\ numInnerItermax = None
    /\ stopInnerThr = None /\ stopThr = None /\ log = None
    /\ a = None /\ b = None /\ labels_a = None /\ reg = None /\ M = None
    /\ xs1 = None /\ xstxs = None /\ I = None /\ I0 = None
    /\ K = None /\ K1 = None /\ Kp = None /\ K0 = None /\ Kreg = None
    /\ G = None /\ L = None /\ vloss = None /\ loop = None /\ it = None
    /\ indices_labels = None /\ W = None /\ cpt = None /\ transp = None
    /\ blk = None /\ lstlab = None /\ delta_fval = None

solverState == <<xs, xt, mu, eta, bias, sigma, numItermax, numInnerItermax,
                 stopInnerThr, stopThr, log, a, b, labels_a, reg, M, xs1, xstxs, I,
                 I0, K, K1, Kp, K0, Kreg, G, L, vloss, loop, it, indices_labels, W,
                 cpt, transp, blk, lstlab, delta_fval>>

\* BaseTransport.fit, lines 1089-1098
FitCost ==
    /\ pc = "idle"
    /\ ncall < MaxCalls
    /\ fn' = "fit"
    /\ ncall' = ncall + 1
    /\ LET Cost == dist(args.Xs, args.Xt)
           labelled == args.ys # None /\ args.yt # None
           limit == IF labelled /\ self.limit_max # Inf
                    THEN RMul(self.limit_max, MaxEntry(Cost))
                    ELSE self.limit_max
       IN  /\ self' = SetAttr(SetAttr(self, "Cost", Cost), "limit_max", limit)
           /\ classes' = IF labelled THEN unique(args.ys) ELSE <<>>
    /\ pc' = "for_c"
    /\ ret' = None
    /\ UNCHANGED <<args, calls, solverState>>

\* lines 1099-1107: one class c of the loop
FitMask ==
    /\ pc = "for_c"
    /\ classes # <<>>
    /\ LET c == Head(classes)
           idx_s == {i \in 1..Len(args.ys) : args.ys[i] # c /\ args.ys[i] # -1}
           idx_t == {j \in 1..Len(args.yt) : args.yt[j] = c}
       IN  self' = SetAttr(self, "Cost",
                       [i \in 1..Rows(self.Cost) |-> [j \in 1..Cols(self.Cost) |->
                           IF i \in idx_s /\ j \in idx_t THEN self.limit_max
                           ELSE self.Cost[i][j]]])
    /\ classes' = Tail(classes)
    /\ UNCHANGED <<fn, pc, args, ncall, calls, ret, solverState>>

\* lines 1110-1117
FitStore ==
    /\ pc = "for_c"
    /\ classes = <<>>
    /\ self' = SetAttr(SetAttr(SetAttr(SetAttr(self,
                   "mu_s", unif(Rows(args.Xs))), "mu_t", unif(Rows(args.Xt))),
                   "Xs", args.Xs), "Xt", args.Xt)
    /\ pc' = "coupling"
    /\ UNCHANGED <<fn, args, ncall, classes, calls, ret, solverState>>

\* What the solver of the subclass returns for the coupling P it computed:
\* sinkhorn and gcg (through sinkhorn_l1l2_gl, line 234) return the pair of P
\* and their log when log is set; emd has no log and sinkhorn_lpl1_mm ignores
\* it (line 129).
solver_result(o, P) ==
    IF o.log /\ o.class \in {"SinkhornTransport", "SinkhornL1l2Transport"}
    THEN <<P, Dict(<<<<"err", <<>>>>>>)>>
    ELSE P
\* a pair (coupling, log dict): its second component is no row of numbers
IsPair(v) == Len(v[2][2]) # 2

\* lines 1298-1303 (1378-1384, 1482-1488, 1587-1593): the subclass stores
\* what its solver returned
FitCoupling ==
    /\ pc = "coupling"
    /\ \E P \in TransportCouplings(self.mu_s, self.mu_t) :
          self' = SetAttr(self, "Coupling_", solver_result(self, P))
    /\ ret' = <<"return", "self">>
    /\ pc' = "idle"
    /\ UNCHANGED <<fn, args, ncall, classes, calls, solverState>>

\* barycentric without the zero-fill of lines 1164 and 1199
barycentric_nan(C, X) ==
    FDot([i \in 1..Rows(C) |-> [j \in 1..Cols(C) |->
             FloatDiv(C[i][j], RSum(C[i]))]], X)

\* lines 1161-1167 (1196-1202): the barycentric mapping of the rows of C on X
barycentric(C, X) ==
    LET transp_ == [i \in 1..Rows(C) |-> [j \in 1..Cols(C) |->
                       FloatDiv(C[i][j], RSum(C[i]))]]
        zeroed == [i \in 1..Rows(C) |-> [j \in 1..Cols(C) |->
                       IF Finite(transp_[i][j]) THEN transp_[i][j] ELSE RInt(0)]]
    IN  FDot(zeroed, X)

\* BaseTransport.transform, lines 1159-1174
Transform ==
    /\ pc = "idle"
    /\ fn' = "transform"
    /\ \E Xs \in {args.Xs, OtherSamples} :
          ret' = IF ~HasAttr(self, "Xs") THEN <<"raise", "AttributeError", Xs>>
                 ELSE IF self.Xs = Xs
                 THEN IF IsPair(self.Coupling_) THEN <<"raise", "ValueError", Xs>>
                      ELSE <<"return", barycentric(self.Coupling_, self.Xt), Xs>>
                 ELSE <<"return", Xs, Xs>>
    /\ UNCHANGED <<pc, self, args, ncall, classes, calls, solverState>>

\* BaseTransport.inverse_transform, lines 1194-1209
InverseTransform ==
    /\ pc = "idle"
    /\ fn' = "inverse_transform"
    /\ \E Xt \in {args.Xt, OtherSamples} :
          ret' = IF ~HasAttr(self, "Xt") THEN <<"raise", "AttributeError", Xt>>
                 ELSE IF self.Xt = Xt
                 THEN IF IsPair(self.Coupling_) THEN <<"raise", "AttributeError", Xt>>
                      ELSE <<"return", barycentric(Transpose(self.Coupling_), self.Xs),
                             Xt>>
                 ELSE <<"return", Xt, Xt>>
    /\ UNCHANGED <<pc, self, args, ncall, classes, calls, solverState>>

TransportNext ==
    \/ FitCost \/ FitMask \/ FitStore \/ FitCoupling \/ Transform \/ InverseTransform

SpecTransport == TransportInit /\ [][TransportNext]_vars

\* lines 1260-1274, 1442-1459, 1547-1564: the entropic estimators, built with
\* either value of log, and fitted with labelled sources
TransportLogInit ==
    /\ fn = "__init__"
    /\ pc = "idle"
    /\ self \in [class : {"SinkhornTransport", "SinkhornLpl1Transport",
                          "SinkhornL1l2Transport"},
                 limit_max : {Inf}, log : BOOLEAN]
    /\ args \in [Xs : {Points(0, 1)}, Xt : {Points(1, 3)},
                 ys : Labels, yt : Labels \cup {None}]
    /\ ncall = 0
    /\ classes = None
    /\ calls = <<>>
    /\ ret = None
    /\ xs = None /\ xt = None /\ mu = None /\ eta = None /\ bias = None
    /\ sigma = None /\ numItermax = None /\ numInnerItermax = None
    /\ stopInnerThr = None /\ stopThr = None /\ log = None
    /\ a = None /\ b = None /\ labels_a = None /\ reg = None /\ M = None
    /\ xs1 = None /\ xstxs = None /\ I = None /\ I0 = None
    /\ K = None /\ K1 = None /\ Kp = None /\ K0 = None /\ Kreg = None
    /\ G = None /\ L = None /\ vloss = None /\ loop = None /\ it = None
    /\ indices_labels = None /\ W = None /\ cpt = None /\ transp = None
    /\ blk = None /\ lstlab = None /\ delta_fval = None

SpecTransportLog == TransportLogInit /\ [][TransportNext]_vars

(***************************************************************************)
(* The cost matrix of a fitted transport estimator.                        *)
(***************************************************************************)
Fitted == pc \in {"coupling", "idle"} /\ HasAttr(self, "Cost")

\* C18: after BaseTransport.fit, Cost[i, j] is the limit value exactly for the
\* pairs whose source i and target j are both labelled (label # -1) with
\* different classes, and the pairwise distance for every other pair; with ys
\* or yt None no entry is masked.
Orig_C18_MaskedPairs ==
    (fn \in {"__init__", "fit", "transform", "inverse_transform"} /\ Fitted) =>
        \A i \in 1..Rows(self.Cost) : \A j \in 1..Cols(self.Cost) :
            self.Cost[i][j] =
                IF /\ args.ys # None /\ args.yt # None
                   /\ args.ys[i] # -1 /\ args.yt[j] # -1
                   /\ args.ys[i] # args.yt[j]
                THEN self.limit_max
                ELSE dist(args.Xs, args.Xt)[i][j]

(***************************************************************************)
(* transform and inverse_transform.                                        *)
(***************************************************************************)
\* Each row r of out is the average of the rows of X with the weights C[r],
\* and the zero vector when the weights of the row sum to 0
IsBarycenter(out, C, X) ==
    /\ Rows(out) = Rows(C)
    /\ \A r \in 1..Rows(C) : \A k \in 1..Cols(X) :
          /\ Finite(out[r][k])
          /\ IF RSum(C[r]) = RInt(0) THEN out[r][k] = RInt(0)
             ELSE RMul(out[r][k], RSum(C[r])) =
                  RSum([j \in 1..Cols(C) |-> RMul(C[r][j], X[j][k])])
MappingResult ==
    /\ (fn = "transform" /\ ret[1] = "return") =>
          IF ret[3] = self.Xs THEN IsBarycenter(ret[2], self.Coupling_, self.Xt)
          ELSE ret[2] = ret[3]
    /\ (fn = "inverse_transform" /\ ret[1] = "return") =>
          IF ret[3] = self.Xt
          THEN IsBarycenter(ret[2], Transpose(self.Coupling_), self.Xs)
          ELSE ret[2] = ret[3]
MappingStep ==
    (pc = "idle" /\ fn' \in {"transform", "inverse_transform"}) =>
        self' = self /\ args' = args

\* C19: transform with the stored Xs returns, row by row, the average of Xt
\* weighted by the normalized row of Coupling_, the zero vector for a row of
\* mass 0, and no nan or inf; with another Xs it returns that Xs.
\* inverse_transform does the same on the columns with Xt and Xs exchanged.
\* Neither changes the object or the caller's arrays.
Thm_C19_BarycentricMapping == [](MappingResult) /\ [][MappingStep]_vars

Wit_C19_ZeroMassRow ==
    /\ fn = "transform" /\ ret[1] = "return" /\ ret[3] = self.Xs
    /\ RSum(self.Coupling_[1]) = RInt(0)
    /\ ret[2][1] = <<RInt(0)>>
    /\ ret[2][2] \notin {<<RInt(0)>>, self.Xt[1], self.Xt[2]}

(***************************************************************************)
(* OTDA and its subclasses: lines 635-919.  A fit, an interp or a predict  *)
(* starts when no call is in progress; a call of an external function     *)
(* (dist, emd, sinkhorn) or of a solver either returns or raises.          *)
(***************************************************************************)
Int0 == <<<<<<0>>>>>>             \* the Python int 0 of __init__, no array
IsArray(v) == Len(v[1][1]) = 2
CouplingClasses == {"OTDA", "OTDA_sinkhorn"}
MappingClasses == {"OTDA_mapping_linear", "OTDA_mapping_kernel"}
Datasets == {[xs |-> Points(0, 1), xt |-> Points(1, 3)],
             [xs |-> Points(1, 1), xt |-> Points(0, 2)]}

\* lines 649-655 and 846-855: the object after construction
OTDAInit ==
    /\ fn = "__init__"
    /\ pc = "idle"
    /\ \E c \in CouplingClasses \cup MappingClasses :
          self = IF c \in CouplingClasses
                 THEN [class |-> c, xs |-> Int0, xt |-> Int0, G |-> Int0,
                       metric |-> "sqeuclidean", computed |-> FALSE]
                 ELSE [class |-> c, xs |-> Int0, xt |-> Int0, G |-> Int0, L |-> Int0,
                       bias |-> FALSE, computed |-> FALSE, metric |-> "sqeuclidean"]
    /\ args = None
    /\ ncall = 0
    /\ classes = None
    /\ calls = <<>>
    /\ ret = None
    /\ xs = None /\ xt = None /\ mu = None /\ eta = None /\ bias = None
    /\ sigma = None /\ numItermax = None /\ numInnerItermax = None
    /\ stopInnerThr = None /\ stopThr = None /\ log = None
    /\ a = None /\ b = None /\ labels_a = None /\ reg = None /\ M = None
    /\ xs1 = None /\ xstxs = None /\ I = None /\ I0 = None
    /\ K = None /\ K1 = None /\ Kp = None /\ K0 = None /\ Kreg = None
    /\ G = None /\ L = None /\ vloss = None /\ loop = None /\ it = None
    /\ indices_labels = None /\ W = None /\ cpt = None /\ transp = None
    /\ blk = None /\ lstlab = None /\ delta_fval = None

SetAttrs(o, r) == [k \in DOMAIN o \cup DOMAIN r |-> IF k \in DOMAIN r THEN r[k] ELSE o[k]]

\* OTDA.fit, lines 660-669 (769-778)
OtdaFitAssign ==
    /\ pc = "idle"
    /\ ncall < MaxCalls
    /\ self.class \in CouplingClasses
    /\ \E D \in Datasets, norm \in {"None", "max"} :
          /\ args' = [xs |-> D.xs, xt |-> D.xt, norm |-> norm]
          /\ self' = SetAttrs(self, [xs |-> D.xs, xt |-> D.xt,
                                     ws |-> unif(Rows(D.xs)), wt |-> unif(Rows(D.xt))])
    /\ fn' = "fit"
    /\ ncall' = ncall + 1
    /\ pc' = "fit_M"
    /\ ret' = None
    /\ UNCHANGED <<classes, calls, solverState>>

\* lines 751-758: the normalizations that stay rational
normalizeM(M_, norm) ==
    IF norm = "max"
    THEN [i \in 1..Rows(M_) |-> [j \in 1..Cols(M_) |-> FloatDiv(M_[i][j], MaxEntry(M_))]]
    ELSE M_

\* lines 671-672 (780-781)
OtdaFitCost ==
    /\ pc = "fit_M"
    /\ \/ /\ self' = SetAttr(self, "M", normalizeM(dist(args.xs, args.xt), args.norm))
          /\ pc' = "fit_G"
          /\ ret' = ret
       \/ /\ ret' = <<"raise", "dist">>
          /\ pc' = "idle"
          /\ self' = self
    /\ UNCHANGED <<fn, args, ncall, classes, calls, solverState>>

\* lines 673-674 (782-783)
OtdaFitSolve ==
    /\ pc = "fit_G"
    /\ \/ /\ \E P \in Feasible(self.ws, self.wt) :
                /\ self' = SetAttrs(self, [G |-> P, computed |-> TRUE])
                /\ calls' = Append(calls,
                       <<IF self.class = "OTDA" THEN "emd" ELSE "sinkhorn",
                         self.ws, self.wt, self.M, P>>)
          /\ ret' = <<"return", None>>
       \/ /\ ret' = <<"raise", "transport">>
          /\ self' = self
          /\ calls' = calls
    /\ pc' = "idle"
    /\ UNCHANGED <<fn, args, ncall, classes, solverState>>

\* OTDA_mapping_linear.fit, lines 860-865 (OTDA_mapping_kernel.fit, 893-901)
MappingFitAssign ==
    /\ pc = "idle"
    /\ ncall < MaxCalls
    /\ self.class \in MappingClasses
    /\ \E D \in Datasets, bias_ \in BOOLEAN, sigma_ \in {RInt(1), RInt(2)},
          kwargs_ \in {<<>>, <<"numItermax">>} :
          /\ args' = [xs |-> D.xs, xt |-> D.xt, bias |-> bias_, sigma |-> sigma_,
                      kwargs |-> kwargs_]
          /\ self' = SetAttrs(self,
                IF self.class = "OTDA_mapping_linear"
                THEN [xs |-> D.xs, xt |-> D.xt, bias |-> bias_,
                      ws |-> unif(Rows(D.xs)), wt |-> unif(Rows(D.xt))]
                ELSE [xs |-> D.xs, xt |-> D.xt, bias |-> bias_,
                      ws |-> unif(Rows(D.xs)), wt |-> unif(Rows(D.xt)),
                      kernel |-> "gaussian", sigma |-> sigma_, kwargs |-> kwargs_])
    /\ fn' = "fit"
    /\ ncall' = ncall + 1
    /\ pc' = "fit_joint"
    /\ ret' = None
    /\ UNCHANGED <<classes, calls, solverState>>

\* lines 867-869 (903-905): the pair the joint solver returns.  L is kept as
\* the term "the mapping the solver fitted to these arguments"; the call of
\* line 903 names neither kerneltype nor sigma, so that the solver runs with
\* the defaults of its signature (lines 425-426).
MappingFitSolve ==
    /\ pc = "fit_joint"
    /\ \/ /\ \E P \in Feasible(self.ws, self.wt) :
                self' = SetAttrs(self,
                    [G |-> P, computed |-> TRUE,
                     L |-> IF self.class = "OTDA_mapping_linear"
                           THEN <<"L", Linear, args.xs, args.xt, args.bias, P>>
                           ELSE <<"L", Kernel, args.xs, args.xt, args.bias, P,
                                  "gaussian", RInt(1)>>])
          /\ ret' = <<"return", None>>
       \/ /\ ret' = <<"raise", "joint">>
          /\ self' = self
    /\ pc' = "idle"
    /\ UNCHANGED <<fn, args, ncall, classes, calls, solverState>>

\* OTDA.interp, lines 691-710: what the call returns or raises
interp(o, direction) ==
    IF direction > 0
    THEN IF ~HasAttr(o, "ws") THEN <<"raise", "AttributeError">>
         ELSE IF o.computed
         THEN <<"return", Dot([i \in 1..Rows(o.G) |-> [j \in 1..Cols(o.G) |->
                                  FloatDiv(o.G[i][j], o.ws[i])]], o.xt)>>
         ELSE <<"return", None>>
    ELSE IF ~IsArray(o.G) \/ ~HasAttr(o, "wt") THEN <<"raise", "AttributeError">>
         ELSE IF o.computed
         THEN <<"return", Dot([j \in 1..Cols(o.G) |-> [i \in 1..Rows(o.G) |->
                                  FloatDiv(o.G[i][j], o.wt[j])]], o.xs)>>
         ELSE <<"return", None>>

Interp ==
    /\ pc = "idle"
    /\ fn' = "interp"
    /\ \E direction \in {1, -1} : ret' = interp(self, direction)
    /\ UNCHANGED <<pc, self, args, ncall, classes, calls, solverState>>

\* np.argmin(D0, 1): for each row the first column of least distance
argmin(D0) ==
    [r \in 1..Rows(D0) |->
        CHOOSE j \in 1..Cols(D0) :
            /\ \A k \in 1..Cols(D0) : ~RLess(D0[r][k], D0[r][j])
            /\ \A k \in 1..(j - 1) : RLess(D0[r][j], D0[r][k])]

\* OTDA.predict, lines 727-738
otda_predict(o, x, direction) ==
    LET x0 == IF direction > 0 THEN o.xs ELSE o.xt
        xf == interp(o, direction)
    IN  IF ~IsArray(x0) THEN <<"raise", "ValueError">>
        ELSE IF xf[1] = "raise" THEN xf
        ELSE IF xf[2] = None THEN <<"raise", "TypeError">>
        ELSE LET idx == argmin(dist(x, x0))
             IN  <<"return", [r \in 1..Rows(x) |-> [k \in 1..Cols(x) |->
                     RSub(RAdd(xf[2][idx[r]][k], x[r][k]), x0[idx[r]][k])]]>>

\* OTDA_mapping_linear.predict, lines 876-882, and
\* OTDA_mapping_kernel.predict, lines 910-919
mapping_predict(o, x) ==
    IF o.computed
    THEN LET feats == IF o.class = "OTDA_mapping_linear" THEN x
                      ELSE kernel(x, o.xs, o.sigma)
         IN  <<"return", <<"dot", IF o.bias THEN HStack(feats, Ones(Rows(x), 1))
                                  ELSE feats, o.L>>>>
    ELSE <<"return", None>>

Predict ==
    /\ pc = "idle"
    /\ fn' = "predict"
    /\ \E x \in {Points(0, 2)}, direction \in {1, -1} :
          ret' = IF self.class \in CouplingClasses THEN otda_predict(self, x, direction)
                 ELSE mapping_predict(self, x)
    /\ UNCHANGED <<pc, self, args, ncall, classes, calls, solverState>>

OTDANext ==
    \/ OtdaFitAssign \/ OtdaFitCost \/ OtdaFitSolve \/ MappingFitAssign
    \/ MappingFitSolve \/ Interp \/ Predict

SpecOTDA == OTDAInit /\ [][OTDANext]_vars

\* C20: on an OTDA-family estimator that has no completed fit, interp and
\* predict return None; after a completed fit they return an array.
Orig_C20_NoneBeforeFit ==
    (fn \in {"interp", "predict"} /\ pc = "idle" /\ HasAttr(self, "computed")) =>
        IF self.computed THEN ret[1] = "return" /\ ret[2] # None
        ELSE ret = <<"return", None>>

(***************************************************************************)
(* The rounds of the joint mapping estimators.                             *)
(***************************************************************************)
\* calls[1] is the emd call of the setup, calls[k + 1] the cg call of round k
RoundHistory ==
    (fn \in {Linear, Kernel} /\ pc \notin {"start", "first_L", "raised"}) =>
        \A k \in 2..Len(calls) :
            /\ calls[k][1] = "cg"
            /\ calls[k][2] = RDiv(RInt(1), mu)
            /\ calls[k][3] = calls[k - 1][5]
            /\ calls[k][4] = solve_L(calls[k - 1][5])
RoundOrder ==
    fn \in {Linear, Kernel} =>
        /\ pc = "update_G" =>
              /\ pc' = "update_L" /\ L' = L /\ vloss' = vloss /\ loop' = loop
              /\ calls' = Append(calls, <<"cg", RDiv(RInt(1), mu), G, L, G'>>)
        /\ pc = "update_L" =>
              /\ pc' = "append_loss" /\ G' = G /\ vloss' = vloss /\ loop' = loop
              /\ L' = solve_L(G)
        /\ pc = "append_loss" =>
              /\ pc' = "test_budget" /\ G' = G /\ L' = L /\ loop' = loop
              /\ vloss' = Append(vloss, loss(L, G))
        /\ pc \in {"test_budget", "test_thr"} =>
              G' = G /\ L' = L /\ vloss' = vloss /\ calls' = calls
        /\ loop' # loop => pc \in {"init_loop", "test_budget", "test_thr"}

\* C21: a round is, in this order, the cg update of G with weight 1/mu from the
\* previous coupling and the previous L, the solve_L refit from the new G, the
\* append of the loss of the new pair; the loop flag is tested only after that.
Thm_C21_RoundOrder == [](RoundHistory) /\ [][RoundOrder]_vars

Wit_C21_WarmStartedSecondRound ==
    /\ Returned /\ it = 2 /\ Len(calls) = 3
    /\ calls[3][3] = calls[2][5]
    /\ calls[2][5] # calls[1][5]
    /\ calls[3][4] # calls[2][4]

\* C22: between rounds and at return L is solve_L of the current G, and the
\* returned pair is (G, solve_L(G)), also when no round ran.
Thm_C22_PairConsistent ==
    (fn \in {Linear, Kernel} /\ BetweenRounds) =>
        /\ L = solve_L(G)
        /\ Returned => ret[2] = G /\ ret[3] = L

Wit_C22_RefitAfterRound ==
    /\ Returned /\ it >= 1 /\ loop = 0
    /\ ret[2] # calls[1][5]
    /\ ret[3] = solve_L(ret[2])
    /\ ret[3] # solve_L(calls[1][5])

(***************************************************************************)
(* Repeated fits and the log parameter of the transport estimators.        *)
(***************************************************************************)
\* C23: fit leaves the limit_max parameter of the estimator at its configured
\* value, so that every fit on the same labelled inputs gives the same Cost.
Orig_C23_LimitMaxKept == [][self'.limit_max = self.limit_max]_vars

\* C25: after fit of an entropic transport estimator Coupling_ is one matrix
\* of n_source rows and n_target columns, and transform and
\* inverse_transform on the fitted arrays return, whatever log is.
Orig_C25_CouplingIsMatrix ==
    (pc = "idle" /\ HasAttr(self, "Coupling_")) =>
        /\ ~IsPair(self.Coupling_)
        /\ Rows(self.Coupling_) = Rows(self.Xs)
        /\ Cols(self.Coupling_) = Rows(self.Xt)
        /\ fn \in {"transform", "inverse_transform"} => ret[1] = "return"

(***************************************************************************)
(* What a fitted OTDA estimator holds.                                     *)
(***************************************************************************)
KernelParams == {"method", "sigma"}

\* C24: after a fit of OTDA_mapping_kernel the kernel family and bandwidth
\* that predict uses (self.kernel, self.sigma) are those L was estimated with,
\* and the keywords predict hands to the kernel are kernel parameters.
Orig_C24_SameKernelInPredict ==
    (self.class = "OTDA_mapping_kernel" /\ fn = "fit" /\ pc = "idle"
        /\ ret = <<"return", None>>) =>
        /\ self.L[7] = self.kernel
        /\ self.L[8] = self.sigma
        /\ \A k \in 1..Len(self.kwargs) : self.kwargs[k] \in KernelParams

\* C26: when no call is in progress and computed is True, M is the cost of the
\* stored xs and xt and G is what the transport solver returned for the
\* stored ws, wt and M, also after a fit that raised part-way.
Orig_C26_CouplingMatchesSamples ==
    (self.class \in CouplingClasses /\ pc = "idle" /\ self.computed) =>
        /\ self.M = normalizeM(dist(self.xs, self.xt), args.norm)
        /\ Len(calls) >= 1
        /\ calls[Len(calls)][2] = self.ws
        /\ calls[Len(calls)][3] = self.wt
        /\ calls[Len(calls)][4] = self.M
        /\ calls[Len(calls)][5] = self.G

(***************************************************************************)
(* BaseEstimator.set_params, lines 1003-1038.  The estimator is a          *)
(* SinkhornTransport with the constructor parameters reg_e and max_iter    *)
(* and, as distribution_estimation, an object that is itself an estimator  *)
(* with the one parameter reg_e (the nested case of lines 1019-1027).      *)
(* args holds the frame of the call: the params dict in its iteration      *)
(* order, each key already split at the first '__', valid_params, and the  *)
(* position of the for loop.                                               *)
(***************************************************************************)
get_param_names == {"reg_e", "max_iter", "distribution_estimation"}
sub_param_names == {"reg_e"}
has_get_params(name) == name = "distribution_estimation"

\* lines 967-990, deep=True: the parameters and, for a parameter that is an
\* estimator, its parameters under the key name__sub_name.
get_params(o) ==
    [k \in get_param_names \cup {"distribution_estimation__reg_e"} |->
        IF k = "distribution_estimation__reg_e" THEN o.distribution_estimation.reg_e
        ELSE o[k]]

ParamKeys ==
    {<<"reg_e">>, <<"max_iter">>, <<"bogus">>,
     <<"distribution_estimation", "reg_e">>, <<"distribution_estimation", "bogus">>,
     <<"bogus", "reg_e">>, <<"reg_e", "bogus">>}
ParamValues == {1, 2}
ParamItems == [key : ParamKeys, value : ParamValues]
ParamDicts ==
    {<<>>} \cup {<<i>> : i \in ParamItems}
           \cup {pr \in ParamItems \X ParamItems : pr[1].key # pr[2].key}

SetParamsInit ==
    /\ fn = "__init__"
    /\ pc = "idle"
    /\ self = [reg_e |-> 1, max_iter |-> 1, distribution_estimation |-> [reg_e |-> 1]]
    /\ args = None
    /\ ncall = 0
    /\ classes = None
    /\ calls = <<>>
    /\ ret = None
    /\ xs = None /\ xt = None /\ mu = None /\ eta = None /\ bias = None
    /\ sigma = None /\ numItermax = None /\ numInnerItermax = None
    /\ stopInnerThr = None /\ stopThr = None /\ log = None
    /\ a = None /\ b = None /\ labels_a = None /\ reg = None /\ M = None
    /\ xs1 = None /\ xstxs = None /\ I = None /\ I0 = None
    /\ K = None /\ K1 = None /\ Kp = None /\ K0 = None /\ Kreg = None
    /\ G = None /\ L = None /\ vloss = None /\ loop = None /\ it = None
    /\ indices_labels = None /\ W = None /\ cpt = None /\ transp = None
    /\ blk = None /\ lstlab = None /\ delta_fval = None

\* lines 1013-1016
SetParamsCall ==
    /\ pc = "idle"
    /\ ncall < MaxCalls
    /\ fn' = "set_params"
    /\ ncall' = ncall + 1
    /\ \E params \in ParamDicts :
          IF params = <<>>
          THEN /\ args' = [params |-> params, valid_params |-> None, i |-> 1]
               /\ ret' = <<"return", "self">>
               /\ pc' = "idle"
          ELSE /\ args' = [params |-> params, valid_params |-> get_params(self), i |-> 1]
               /\ ret' = None
               /\ pc' = "for"
    /\ UNCHANGED <<self, classes, calls, solverState>>

\* lines 1018-1037, one item of params.items()
SetParamsItem ==
    /\ pc = "for"
    /\ args.i <= Len(args.params)
    /\ LET split == args.params[args.i].key
           value == args.params[args.i].value
           name == split[1]
       IN  IF Len(split) > 1
           THEN IF name \notin DOMAIN args.valid_params
                THEN /\ ret' = <<"raise", "ValueError">>
                     /\ pc' = "idle"
                     /\ UNCHANGED <<self, args>>
                ELSE IF ~has_get_params(name)
                THEN /\ ret' = <<"raise", "AttributeError">>
                     /\ pc' = "idle"
                     /\ UNCHANGED <<self, args>>
                ELSE IF split[2] \notin sub_param_names
                THEN /\ ret' = <<"raise", "ValueError">>
                     /\ pc' = "idle"
                     /\ UNCHANGED <<self, args>>
                ELSE /\ self' = [self EXCEPT ![name] = SetAttr(@, split[2], value)]
                     /\ args' = [args EXCEPT !.i = @ + 1]
                     /\ UNCHANGED <<ret, pc>>
           ELSE IF name \notin DOMAIN args.valid_params
                THEN /\ ret' = <<"raise", "ValueError">>
                     /\ pc' = "idle"
                     /\ UNCHANGED <<self, args>>
                ELSE /\ self' = SetAttr(self, name, value)
                     /\ args' = [args EXCEPT !.i = @ + 1]
                     /\ UNCHANGED <<ret, pc>>
    /\ UNCHANGED <<fn, ncall, classes, calls, solverState>>

\* line 1038
SetParamsReturn ==
    /\ pc = "for"
    /\ args.i > Len(args.params)
    /\ ret' = <<"return", "self">>
    /\ pc' = "idle"
    /\ UNCHANGED <<fn, self, args, ncall, classes, calls, solverState>>

SetParamsNext == SetParamsCall \/ SetParamsItem \/ SetParamsReturn

SpecSetParams == SetParamsInit /\ [][SetParamsNext]_vars

\* C27: a set_params call given a key whose name, or whose prefix before
\* '__', is not a parameter of the estimator ends with ValueError, and it
\* leaves every parameter at the value it had when the call began.
Orig_C27_InvalidKeyChangesNothing ==
    (fn = "set_params" /\ pc = "idle"
        /\ \E k \in 1..Len(args.params) : args.params[k].key[1] \notin get_param_names) =>
        /\ ret = <<"raise", "ValueError">>
        /\ \A n \in get_param_names : self[n] = args.valid_params[n]

====
